---- MODULE Spec2Model ----
(***************************************************************************)
(* Lead store, CSV import reconciliation and ownership balancer of the     *)
(* sales CRM (server/services/crm.ts, server/scheduler.ts): the store is   *)
(* the JSON files, and the tables of Supabase when it is configured.       *)
(*                                                                         *)
(* Strings are sequences of one-character strings, so that trimming,      *)
(* lower-casing and phone normalisation are computed character by          *)
(* character. An absent (undefined / null / "") string is <<>>.            *)
(***************************************************************************)
EXTENDS Integers, Sequences, FiniteSets, TLC

VARIABLES
    leads,          \* leads.json: sequence of Lead records, in file order
    salespersons,   \* salespersons.json: sequence of [id, active]
    config,         \* config.json: [sheetUrl, lastSyncAt, headers]; the time t is <<t>>
    clock,          \* the wall clock read by new Date().toISOString()
    nextLeadId,     \* randomUUID(): ids of leads are never reused
    nextWorkerId,   \* randomUUID(): ids of salespersons are never reused
    ret,            \* the last completed handler and what it reported
    supabase,       \* [configured, leads]: whether SUPABASE_URL and the key
                    \* are set, and the rows of the leads table of Supabase
    flights         \* the handlers that wait at an await, with their locals

vars == <<leads, salespersons, config, clock, nextLeadId, nextWorkerId, ret,
          supabase, flights>>

\* ------------------------------------------------------------------ bounds
MaxRows    == 2     \* rows in one import batch
MaxStored  == 3     \* leads the store may hold after an import
MaxLeads   == 2     \* leads ever created by createLead
MaxWorkers == 2     \* salespersons ever created
MaxTime    == 1     \* clock ticks
MaxText    == 4     \* characters of a CSV text or of a phone number

MaxRuns    == 2     \* handlers in flight at one time

NULL == 0           \* ownerId: null

\* The handlers that can be in flight, and none of them being so.
Runs == 1..MaxRuns
Idle == [op |-> "idle"]
NoFlights == [p \in Runs |-> Idle]

\* ----------------------------------------------------------- string helpers
Digits == {"0", "1", "2", "3", "4", "5", "6", "7", "8", "9"}
Whitespace == {" ", "\t", "\n", "\r"}
UpperCase == <<"A", "B", "C", "D", "E", "F", "G", "H", "I", "J", "K", "L", "M",
               "N", "O", "P", "Q", "R", "S", "T", "U", "V", "W", "X", "Y", "Z">>
LowerCase == <<"a", "b", "c", "d", "e", "f", "g", "h", "i", "j", "k", "l", "m",
               "n", "o", "p", "q", "r", "s", "t", "u", "v", "w", "x", "y", "z">>

Min(a, b) == IF a <= b THEN a ELSE b

\* F(v), with v evaluated once (a local constant of the code).
With(v, F(_)) == CHOOSE y \in {F(x) : x \in {v}} : TRUE

UpperSet == {UpperCase[i] : i \in 1..26}
LowerOf == [c \in UpperSet |-> LowerCase[CHOOSE i \in 1..26 : UpperCase[i] = c]]

LowerChar(c) == IF c \in UpperSet THEN LowerOf[c] ELSE c

\* String.prototype.toLowerCase
toLowerCase(s) == [i \in 1..Len(s) |-> LowerChar(s[i])]

SetMin(S) == CHOOSE i \in S : \A j \in S : i <= j
SetMax(S) == CHOOSE i \in S : \A j \in S : j <= i

\* String.prototype.trim
trim(s) ==
    With(s, LAMBDA v :
        With({i \in 1..Len(v) : v[i] \notin Whitespace}, LAMBDA keep :
            IF keep = {} THEN <<>> ELSE SubSeq(v, SetMin(keep), SetMax(keep))))

\* v.replace(/\s+/g, "")
StripWhitespace(s) == SelectSeq(s, LAMBDA c : c \notin Whitespace)

StartsWith(s, p) == Len(s) >= Len(p) /\ SubSeq(s, 1, Len(p)) = p

\* An anchored regular expression ^item1 item2 ... $ where each item is a
\* character class with a repetition range [cs, lo, hi].
RECURSIVE MatchFrom(_, _, _, _)
MatchFrom(pat, k, s, i) ==
    IF k > Len(pat) THEN i = Len(s) + 1
    ELSE \E n \in pat[k].lo .. Min(pat[k].hi, Len(s) - i + 1) :
            /\ \A j \in i .. (i + n - 1) : s[j] \in pat[k].cs
            /\ \E k2 \in {k + 1}, i2 \in {i + n} : MatchFrom(pat, k2, s, i2)

Matches(pat, s) == \E v \in {s} : MatchFrom(pat, 1, v, 1)

Many == 1000        \* an unbounded repetition (star, plus)

Item(cs, lo, hi) == [cs |-> cs, lo |-> lo, hi |-> hi]

\* The grave accent, U+0060, which a TLA+ string cannot hold.
Grave == "GRAVE"

\* crm.ts 594: /^\d{1,2}[\-/] \d{1,2}[\-/] \d{2,4}$/
SpacedDatePattern ==
    <<Item(Digits, 1, 2), Item({"-", "/"}, 1, 1), Item({" "}, 1, 1),
      Item(Digits, 1, 2), Item({"-", "/"}, 1, 1), Item({" "}, 1, 1),
      Item(Digits, 2, 4)>>
\* crm.ts 595: /^\d{1,2}[\-/]\d{1,2}[\-/]\d{2,4}$/
DatePattern ==
    <<Item(Digits, 1, 2), Item({"-", "/"}, 1, 1),
      Item(Digits, 1, 2), Item({"-", "/"}, 1, 1), Item(Digits, 2, 4)>>
\* crm.ts 596: /^(jan|feb|mar|apr|may|jun|jul|aug|sep|oct|nov|dec)/i
Months ==
    {<<"j", "a", "n">>, <<"f", "e", "b">>, <<"m", "a", "r">>, <<"a", "p", "r">>,
     <<"m", "a", "y">>, <<"j", "u", "n">>, <<"j", "u", "l">>, <<"a", "u", "g">>,
     <<"s", "e", "p">>, <<"o", "c", "t">>, <<"n", "o", "v">>, <<"d", "e", "c">>}
\* crm.ts 597: /^`\d{2}-\d{2}-\d{4}$/
GraveDatePattern ==
    <<Item({Grave}, 1, 1), Item(Digits, 2, 2), Item({"-"}, 1, 1),
      Item(Digits, 2, 2), Item({"-"}, 1, 1), Item(Digits, 4, 4)>>
\* crm.ts 598: /^sum|^total|^subtotal/i
TotalLabels ==
    {<<"s", "u", "m">>, <<"t", "o", "t", "a", "l">>,
     <<"s", "u", "b", "t", "o", "t", "a", "l">>}
\* crm.ts 599: /^[-+]?\d{1,3}(?:[\,\d]*)(?:\.\d+)?$/, without and with the
\* decimal part
NumberPattern ==
    <<Item({"-", "+"}, 0, 1), Item(Digits, 1, 3), Item(Digits \cup {","}, 0, Many)>>
DecimalPattern ==
    NumberPattern \o <<Item({"."}, 1, 1), Item(Digits, 1, Many)>>

\* crm.ts 593-597
DateLike(v) ==
    \/ Matches(SpacedDatePattern, v)
    \/ Matches(DatePattern, v)
    \/ \E w \in {toLowerCase(v)} : \E m \in Months : StartsWith(w, m)
    \/ Matches(GraveDatePattern, v)

\* crm.ts 598
TotalLike(v) ==
    \E w \in {toLowerCase(v)} : \E p \in TotalLabels : StartsWith(w, p)

\* crm.ts 599-601
NumericOnly(v) ==
    \E w \in {StripWhitespace(v)} : Matches(NumberPattern, w) \/ Matches(DecimalPattern, w)

\* crm.ts 702-704
normalizePhone(p) == SelectSeq(p, LAMBDA c : c \in Digits \cup {"+"})

\* ------------------------------------------------------------------- leads
StatusNew == <<"n", "e", "w">>        \* the LeadStatus "new"

\* r[k] of a row or fields map; undefined is <<>>
Get(r, k) == IF k \in DOMAIN r THEN r[k] ELSE <<>>

\* r[k1] || r[k2] || ... || ""
RECURSIVE FirstTruthyFrom(_, _, _)
FirstTruthyFrom(r, keys, i) ==
    IF i > Len(keys) THEN <<>>
    ELSE IF Get(r, keys[i]) # <<>> THEN Get(r, keys[i])
    ELSE FirstTruthyFrom(r, keys, i + 1)

FirstTruthy(r, keys) == FirstTruthyFrom(r, keys, 1)

\* new Map(entries): of two entries with one key the later one stays.
\* The map is a function from the keys to the lead objects of the snapshot.
IndexBy(ls, keys) ==
    [k \in {keys[i] : i \in 1..Len(ls)} \ {<<>>} |->
        ls[SetMax({i \in 1..Len(ls) : keys[i] = k})]]

EmailKey(l) == IF l.email # <<>> THEN toLowerCase(l.email) ELSE <<>>
PhoneKey(l) == IF l.phone # <<>> THEN normalizePhone(l.phone) ELSE <<>>

\* crm.ts 564-568
ByEmail(ls) ==
    With([i \in 1..Len(ls) |-> EmailKey(ls[i])], LAMBDA keys : IndexBy(ls, keys))
\* crm.ts 569-573
ByPhone(ls) ==
    With([i \in 1..Len(ls) |-> PhoneKey(ls[i])], LAMBDA keys : IndexBy(ls, keys))

\* Map.prototype.get: a sequence holding the lead found, or <<>> (undefined)
MapGet(m, k) == IF k \in DOMAIN m THEN <<m[k]>> ELSE <<>>

\* Spread with the values of a kept for the keys of both.
SpreadKeepingFirst(a, b) ==
    [k \in DOMAIN a \cup DOMAIN b |-> IF k \in DOMAIN a THEN a[k] ELSE b[k]]

\* { ...a, ...b }
Spread(a, b) ==
    [k \in DOMAIN a \cup DOMAIN b |-> IF k \in DOMAIN b THEN b[k] ELSE a[k]]

\* IsJunkRow without the artifact checks.
IsJunkRowEmptyOnly(r) == \A k \in DOMAIN r : trim(r[k]) = <<>>

\* crm.ts 584-606: the row is empty or a spreadsheet artifact
IsJunkRow(r) ==
    \E nonEmpty \in {{k \in DOMAIN r : trim(r[k]) # <<>>}} :
        \/ nonEmpty = {}
        \/ /\ Cardinality(nonEmpty) = 1
           /\ \E v \in {trim(r[CHOOSE k \in nonEmpty : TRUE])} :
                DateLike(v) \/ TotalLike(v) \/ NumericOnly(v)

\* crm.ts 608-630: the convenience values derived from a row
RowName(r) == FirstTruthy(r, <<"name", "Name", "full_name", "Full Name", "lead_name">>)
RowEmail(r) == trim(FirstTruthy(r, <<"email", "Email", "e-mail", "E-mail">>))
RowPhone(r) ==
    With(trim(FirstTruthy(r, <<"phone", "Phone", "mobile", "Mobile">>)),
         LAMBDA phoneRaw : IF phoneRaw # <<>> THEN normalizePhone(phoneRaw) ELSE <<>>)
RowCompany(r) == FirstTruthy(r, <<"company", "Company">>)
RowSource(r) == FirstTruthy(r, <<"source", "Source", "utm_source">>)
RowStatus(r) ==
    With(toLowerCase(trim(FirstTruthy(r, <<"status", "Status">>))),
         LAMBDA statusRaw : IF statusRaw # <<>> THEN statusRaw ELSE StatusNew)
RowNotes(r) == FirstTruthy(r, <<"notes", "Notes">>)

\* crm.ts 648-654
RowFields(r) ==
    [k \in {h \in DOMAIN r : trim(r[h]) # <<>>} |-> trim(r[k])]

\* crm.ts 584-654: the locals of one iteration of the row loop
RowLocals(r) ==
    [junk |-> IsJunkRow(r), name |-> RowName(r), email |-> RowEmail(r),
     phone |-> RowPhone(r), company |-> RowCompany(r), source |-> RowSource(r),
     status |-> RowStatus(r), notes |-> RowNotes(r), fields |-> RowFields(r)]

\* ------------------------------------------------------------------ inputs
\* Cells as parseCSV returns them (trimmed). One address in two letter
\* cases, one phone number in two formats.
JaneUpper == <<"J", "@", "x">>
JaneLower == <<"j", "@", "x">>
Bob       == <<"b", "@", "x">>
Phone12   == <<"1", "2">>
Phone34   == <<"3", "4">>
Phone3d4  == <<"3", "-", "4">>
Al        == <<"A", "l">>

Row(n, e, p) == [Name |-> n, Email |-> e, Phone |-> p]

RowInputs ==
    { Row(Al, JaneUpper, <<>>),         \* a name and an address
      Row(<<>>, JaneLower, Phone34),    \* the address in lower case, and a phone
      Row(<<>>, Bob, Phone3d4),         \* another address, that phone formatted
      Row(Al, <<>>, Phone12),           \* a name and another phone
      Row(Al, <<>>, <<>>) }             \* a name, no address and no phone

\* Rows of a sheet with the columns Full Name, Email, Phone, Status, City.
Won == <<"w", "o", "n">>              \* the LeadStatus "won"
CityX == <<"X", " ">>                \* a cell with a trailing blank
FortyTwo == <<"4", "2">>

SheetRow(n, e, p, s, c) ==
    ("Full Name" :> n) @@ ("Email" :> e) @@ ("Phone" :> p)
        @@ ("Status" :> s) @@ ("City" :> c)

SheetInputs ==
    { SheetRow(<<>>, JaneLower, Phone34, Won, <<>>),   \* address, phone, status
      SheetRow(Al, JaneUpper, <<>>, <<>>, CityX),      \* name, address, city
      SheetRow(<<>>, <<>>, Phone3d4, <<>>, <<>>),      \* the phone alone
      SheetRow(FortyTwo, <<>>, <<>>, <<>>, <<>>),      \* a bare number alone
      SheetRow(<<>>, <<>>, <<>>, Won, CityX) }         \* status and city only

\* Single cells that are date-like, a running-total label or a bare number.
ArtifactCells ==
    { <<"1", "/", "2", "/", "2", "4">>,
      <<"0", "1", "-", "0", "2", "-", "2", "0", "2", "4">>,
      <<"J", "a", "n", " ", "5">>,
      <<"D", "E", "C">>,
      <<"T", "o", "t", "a", "l">>,
      <<"s", "u", "m">>,
      <<"S", "u", "b", "t", "o", "t", "a", "l", ":">>,
      <<"4", "2">>,
      <<"-", "7">>,
      <<"+", "1", ",", "0", "0", "0">>,
      <<"3", ".", "5", "0">>,
      <<"1", "2", "3", "4">> }

\* The row whose only non-empty cell is v.
CellRow(v) == SheetRow(v, <<>>, <<>>, <<>>, <<>>)

KnownRows == RowInputs \cup SheetInputs \cup {CellRow(v) : v \in ArtifactCells}

\* RowLocals of the enumerated rows, computed once.
LocalsOfInput == [r \in KnownRows |-> RowLocals(r)]
LocalsOf(r) == IF r \in KnownRows THEN LocalsOfInput[r] ELSE RowLocals(r)

\* FindExisting without the lookup by phone.
FindExistingByEmailOnly(st, byEmail, byPhone, email, phone) ==
    IF email # <<>> /\ toLowerCase(email) \notin st.importedEmails
    THEN MapGet(byEmail, toLowerCase(email)) ELSE <<>>

\* crm.ts 632-636: the lead of the snapshot the row resolves to, or <<>>
FindExisting(st, byEmail, byPhone, email, phone) ==
    With(IF email # <<>> /\ toLowerCase(email) \notin st.importedEmails
         THEN MapGet(byEmail, toLowerCase(email)) ELSE <<>>,
         LAMBDA byE :
            IF byE = <<>> /\ phone # <<>> /\ phone \notin st.importedPhones
            THEN MapGet(byPhone, phone) ELSE byE)

\* IsBatchDuplicate comparing the address as written.
IsBatchDuplicateCaseSensitive(st, email, phone) ==
    \/ email # <<>> /\ email \in st.importedEmails
    \/ phone # <<>> /\ phone \in st.importedPhones

\* crm.ts 638-646
IsBatchDuplicate(st, email, phone) ==
    \/ email # <<>> /\ toLowerCase(email) \in st.importedEmails
    \/ phone # <<>> /\ phone \in st.importedPhones

\* crm.ts 657-668: c holds the row's locals
MergeLead(existing, c, now) ==
    [existing EXCEPT
        !.name      = IF c.name # <<>> THEN c.name ELSE @,
        !.email     = IF c.email # <<>> THEN c.email ELSE @,
        !.phone     = IF c.phone # <<>> THEN c.phone ELSE @,
        !.company   = IF c.company # <<>> THEN c.company ELSE @,
        !.source    = IF c.source # <<>> THEN c.source ELSE @,
        !.status    = IF c.status # <<>> THEN c.status ELSE @,
        !.notes     = IF c.notes # <<>> THEN c.notes ELSE @,
        !.fields    = Spread(@, c.fields),
        !.updatedAt = now]

\* crm.ts 676-689
NewLead(id, c, now) ==
    [id |-> id, name |-> c.name, email |-> c.email, phone |-> c.phone,
     company |-> c.company, source |-> c.source, status |-> c.status,
     ownerId |-> NULL, notes |-> c.notes, fields |-> c.fields,
     createdAt |-> now, updatedAt |-> now]

\* crm.ts 669-671: state.leads.map((l) => l.id === existing.id ? merged : l)
ReplaceLead(ls, merged) ==
    [i \in 1..Len(ls) |-> IF ls[i].id = merged.id THEN merged ELSE ls[i]]

\* MarkImported without importedPhones.add.
MarkImportedEmailOnly(st, email, phone) ==
    [st EXCEPT
        !.importedEmails = IF email # <<>> THEN @ \cup {toLowerCase(email)} ELSE @]

\* crm.ts 672-673, 691-692
MarkImported(st, email, phone) ==
    [st EXCEPT
        !.importedEmails = IF email # <<>> THEN @ \cup {toLowerCase(email)} ELSE @,
        !.importedPhones = IF phone # <<>> THEN @ \cup {phone} ELSE @]

\* crm.ts 656-674
UpdateExisting(st, existing, c, now) ==
    With(MergeLead(existing, c, now), LAMBDA merged :
        [st EXCEPT !.leads = ReplaceLead(@, merged),
                   !.updated = @ + 1,
                   !.importedEmails = MarkImported(st, c.email, c.phone).importedEmails,
                   !.importedPhones = MarkImported(st, c.email, c.phone).importedPhones,
                   !.log = Append(@, [outcome |-> "updated", id |-> merged.id,
                                      leads |-> ReplaceLead(st.leads, merged)])])

\* crm.ts 675-694
CreateNew(st, c, now) ==
    With(<<NewLead(st.nextId, c, now)>> \o st.leads, LAMBDA ls :
        [st EXCEPT !.leads = ls,
                   !.nextId = @ + 1,
                   !.imported = @ + 1,
                   !.importedEmails = MarkImported(st, c.email, c.phone).importedEmails,
                   !.importedPhones = MarkImported(st, c.email, c.phone).importedPhones,
                   !.log = Append(@, [outcome |-> "imported", id |-> st.nextId,
                                      leads |-> ls])])

\* SkipRow leaving the counter as it is.
SkipRowUncounted(st) ==
    [st EXCEPT !.log = Append(@, [outcome |-> "skipped", id |-> 0, leads |-> st.leads])]

\* crm.ts 587-588, 603-604, 640-641, 644-645: skipped++; continue
SkipRow(st) ==
    [st EXCEPT !.skipped = @ + 1,
               !.log = Append(@, [outcome |-> "skipped", id |-> 0, leads |-> st.leads])]

\* crm.ts 583-695: one iteration of the row loop. st is the loop's state:
\* the working collection state.leads, the two batch sets, the counters, the
\* next fresh id, and a log of what each row did.
ProcessRow(st, r, byEmail, byPhone, now) ==
    With(LocalsOf(r), LAMBDA c :
        IF c.junk \/ IsBatchDuplicate(st, c.email, c.phone) THEN SkipRow(st)
        ELSE With(FindExisting(st, byEmail, byPhone, c.email, c.phone),
                  LAMBDA existing :
                    IF existing # <<>> THEN UpdateExisting(st, existing[1], c, now)
                    ELSE CreateNew(st, c, now)))

RECURSIVE RowLoop(_, _, _, _, _, _)
RowLoop(st, rows, i, byEmail, byPhone, now) ==
    IF i > Len(rows) THEN st
    ELSE With(ProcessRow(st, rows[i], byEmail, byPhone, now),
              LAMBDA nx : RowLoop(nx, rows, i + 1, byEmail, byPhone, now))

\* crm.ts 563-695: importFromCsvRows up to the end of the row loop
ImportRows(ls, rows, firstId, now) ==
    With(<<ByEmail(ls), ByPhone(ls)>>, LAMBDA idx :
        RowLoop([leads |-> ls, importedEmails |-> {}, importedPhones |-> {},
                 imported |-> 0, updated |-> 0, skipped |-> 0,
                 nextId |-> firstId, log |-> <<>>],
                rows, 1, idx[1], idx[2], now))

\* ---------------------------------------------------------------- balancer
\* crm.ts 547-557: load is the Map as its entries [k, v] in insertion order;
\* minVal starts at Infinity, which is while minKey is still null.
RECURSIVE LeastLoadedFrom(_, _, _, _)
LeastLoadedFrom(load, i, minKey, minVal) ==
    IF i > Len(load) THEN minKey
    ELSE IF minKey = NULL \/ load[i].v < minVal
    THEN LeastLoadedFrom(load, i + 1, load[i].k, load[i].v)
    ELSE LeastLoadedFrom(load, i + 1, minKey, minVal)

\* findLeastLoaded returning the first key of the map.
findFirstListed(load) == IF Len(load) = 0 THEN NULL ELSE load[1].k

findLeastLoaded(load) == LeastLoadedFrom(load, 1, NULL, 0)

\* load.set(k, load.get(k) + 1) when load.has(k)
Bump(load, k) ==
    [i \in 1..Len(load) |->
        IF load[i].k = k THEN [load[i] EXCEPT !.v = @ + 1] ELSE load[i]]

\* Active without the filter.
ActiveOrNot(sps) == sps

\* crm.ts 519: state.salespersons.filter((s) => s.active)
Active(sps) == SelectSeq(sps, LAMBDA s : s.active)

\* crm.ts 521-525
RECURSIVE CountLoad(_, _, _)
CountLoad(load, ls, i) ==
    IF i > Len(ls) THEN load
    ELSE With(IF ls[i].ownerId # NULL THEN Bump(load, ls[i].ownerId) ELSE load,
              LAMBDA nx : CountLoad(nx, ls, i + 1))

\* InitialLoad without the count of the leads already owned.
InitialLoadZero(ls, sps) ==
    [i \in 1..Len(Active(sps)) |-> [k |-> Active(sps)[i].id, v |-> 0]]

\* crm.ts 520-525
InitialLoad(ls, sps) ==
    CountLoad([i \in 1..Len(Active(sps)) |-> [k |-> Active(sps)[i].id, v |-> 0]],
              ls, 1)

\* AssignLoop giving every lead, owned or not, to the least loaded.
RECURSIVE AssignLoopAll(_, _, _, _)
AssignLoopAll(acc, ls, i, now) ==
    IF i > Len(ls) THEN acc
    ELSE With(
            With(findLeastLoaded(acc.load), LAMBDA target :
                IF target # NULL
                THEN [leads |-> Append(acc.leads,
                                  [ls[i] EXCEPT !.ownerId = target, !.updatedAt = now]),
                      load |-> Bump(acc.load, target),
                      assigned |-> acc.assigned + 1]
                ELSE [acc EXCEPT !.leads = Append(@, ls[i])]),
            LAMBDA nx : AssignLoopAll(nx, ls, i + 1, now))

\* AssignLoop stamping updatedAt on the leads it leaves with their owner.
RECURSIVE AssignLoopTouching(_, _, _, _)
AssignLoopTouching(acc, ls, i, now) ==
    IF i > Len(ls) THEN acc
    ELSE With(
            With(findLeastLoaded(acc.load), LAMBDA target :
                IF ls[i].ownerId = NULL /\ target # NULL
                THEN [leads |-> Append(acc.leads,
                                  [ls[i] EXCEPT !.ownerId = target, !.updatedAt = now]),
                      load |-> Bump(acc.load, target),
                      assigned |-> acc.assigned + 1]
                ELSE [acc EXCEPT !.leads = Append(@, [ls[i] EXCEPT !.updatedAt = now])]),
            LAMBDA nx : AssignLoopTouching(nx, ls, i + 1, now))

\* crm.ts 527-542: the map over state.leads; acc is [leads, load, assigned]
RECURSIVE AssignLoop(_, _, _, _)
AssignLoop(acc, ls, i, now) ==
    IF i > Len(ls) THEN acc
    ELSE With(
            With(findLeastLoaded(acc.load), LAMBDA target :
                IF ls[i].ownerId = NULL /\ target # NULL
                THEN [leads |-> Append(acc.leads,
                                  [ls[i] EXCEPT !.ownerId = target, !.updatedAt = now]),
                      load |-> Bump(acc.load, target),
                      assigned |-> acc.assigned + 1]
                ELSE [acc EXCEPT !.leads = Append(@, ls[i])]),
            LAMBDA nx : AssignLoop(nx, ls, i + 1, now))

\* crm.ts 517-545: what assignUnassignedLeads leaves in leads.json and returns
AssignResult(ls, sps, now) ==
    IF Len(Active(sps)) = 0 THEN [leads |-> ls, assigned |-> 0]
    ELSE With(
            With(InitialLoad(ls, sps), LAMBDA load :
                AssignLoop([leads |-> <<>>, load |-> load, assigned |-> 0], ls, 1, now)),
            LAMBDA acc :
                IF acc.assigned > 0 THEN [leads |-> acc.leads, assigned |-> acc.assigned]
                ELSE [leads |-> ls, assigned |-> 0])

\* ------------------------------------------------------------------ inputs
RECURSIVE SeqsUpTo(_, _)
SeqsUpTo(S, n) ==
    IF n = 0 THEN {<<>>}
    ELSE LET shorter == SeqsUpTo(S, n - 1)
         IN  shorter \cup {Append(q, x) : q \in shorter, x \in S}

Batches == SeqsUpTo(RowInputs, MaxRows)

\* ------------------------------------------------------------------- state
\* crm.ts 11-19: DEFAULT_STATE
Init ==
    /\ leads = <<>>
    /\ salespersons = <<>>
    /\ config = [sheetUrl |-> "default", lastSyncAt |-> <<>>, headers |-> <<>>]
    /\ clock = 0
    /\ nextLeadId = 1
    /\ nextWorkerId = 1
    /\ ret = [op |-> "none"]
    /\ supabase = [configured |-> FALSE, leads |-> {}]
    /\ flights = NoFlights

\* The import pipeline starts from the store with no lead and the one active
\* salesperson that createSalesperson has added.
InitImport ==
    /\ leads = <<>>
    /\ salespersons = <<[id |-> 1, active |-> TRUE]>>
    /\ nextWorkerId = 2
    /\ config = [sheetUrl |-> "default", lastSyncAt |-> <<>>, headers |-> <<>>]
    /\ clock = 0
    /\ nextLeadId = 1
    /\ ret = [op |-> "none"]
    /\ supabase = [configured |-> FALSE, leads |-> {}]
    /\ flights = NoFlights

\* Time passes between two handlers.
Tick ==
    /\ clock < MaxTime
    /\ clock' = clock + 1
    /\ UNCHANGED <<leads, salespersons, config, nextLeadId, nextWorkerId, ret, supabase, flights>>

\* crm.ts 559-700: what importFromCsvRows leaves in leads.json and returns;
\* log tells what each row did.
ImportRun(ls, sps, rows, firstId, now) ==
    With(ImportRows(ls, rows, firstId, now), LAMBDA st :
        With(AssignResult(st.leads, sps, now), LAMBDA res :
            [leads |-> res.leads, nextId |-> st.nextId, log |-> st.log,
             imported |-> st.imported, updated |-> st.updated,
             assigned |-> res.assigned, skipped |-> st.skipped]))

\* The counts the call returns are the fields of ImportRun.
ImportFromCsvRows(rows) ==
    \E run \in {ImportRun(leads, salespersons, rows, nextLeadId, clock)} :
        /\ Len(run.leads) <= MaxStored
        /\ leads' = run.leads
        /\ nextLeadId' = run.nextId
        /\ ret' = [op |-> "importFromCsvRows"]
        /\ UNCHANGED <<salespersons, config, clock, nextWorkerId, supabase, flights>>

\* crm.ts 332-357
CreateSalesperson ==
    /\ nextWorkerId <= MaxWorkers
    /\ salespersons' = Append(salespersons, [id |-> nextWorkerId, active |-> TRUE])
    /\ nextWorkerId' = nextWorkerId + 1
    /\ ret' = [op |-> "createSalesperson"]
    /\ UNCHANGED <<leads, config, clock, nextLeadId, supabase, flights>>

\* crm.ts 381-387: { ...state.salespersons[idx], ...patch } with patch = { active }
PatchSalesperson(sps, id, active) ==
    [i \in 1..Len(sps) |->
        IF sps[i].id = id THEN [sps[i] EXCEPT !.active = active] ELSE sps[i]]

\* crm.ts 359-388
UpdateSalesperson(id, active) ==
    /\ salespersons' = PatchSalesperson(salespersons, id, active)
    /\ ret' = [op |-> "updateSalesperson"]
    /\ UNCHANGED <<leads, config, clock, nextLeadId, nextWorkerId, supabase, flights>>

\* crm.ts 405: state.salespersons.filter((s) => s.id !== id)
RemoveSalesperson(sps, id) == SelectSeq(sps, LAMBDA s : s.id # id)

\* UnassignLeads leaving every owner in place.
UnassignNone(ls, id) == ls

\* crm.ts 407-409
UnassignLeads(ls, id) ==
    [i \in 1..Len(ls) |->
        IF ls[i].ownerId = id THEN [ls[i] EXCEPT !.ownerId = NULL] ELSE ls[i]]

\* crm.ts 390-412
DeleteSalesperson(id) ==
    /\ salespersons' = RemoveSalesperson(salespersons, id)
    /\ leads' = UnassignLeads(leads, id)
    /\ ret' = [op |-> "deleteSalesperson", id |-> id,
               unassigned |-> Cardinality({i \in 1..Len(leads) : leads[i].ownerId = id})]
    /\ UNCHANGED <<config, clock, nextLeadId, nextWorkerId, supabase, flights>>

\* crm.ts 414-437: the lead createLead builds from { ownerId }
BuildLead(id, ownerId, now) ==
    [id |-> id, name |-> <<>>, email |-> <<>>, phone |-> <<>>,
     company |-> <<>>, source |-> <<>>, status |-> StatusNew,
     ownerId |-> ownerId, notes |-> <<>>, fields |-> [Name |-> <<>>],
     createdAt |-> now, updatedAt |-> now]

\* crm.ts 414-452
CreateLead(ownerId) ==
    /\ nextLeadId <= MaxLeads
    /\ leads' = <<BuildLead(nextLeadId, ownerId, clock)>> \o leads
    /\ nextLeadId' = nextLeadId + 1
    /\ ret' = [op |-> "createLead"]
    /\ UNCHANGED <<salespersons, config, clock, nextWorkerId, supabase, flights>>

\* crm.ts 517-545
AssignUnassignedLeads ==
    \E res \in {AssignResult(leads, salespersons, clock)} :
        /\ leads' = res.leads
        /\ ret' = [op |-> "assignUnassignedLeads", assigned |-> res.assigned]
        /\ UNCHANGED <<salespersons, config, clock, nextLeadId, nextWorkerId, supabase, flights>>

\* The import pipeline: runs of importFromCsvRows, one after the other.
Next ==
    \E rows \in Batches : ImportFromCsvRows(rows)

Spec == InitImport /\ [][Next]_vars

\* The ownerId of a request to createLead: null, or the id of a salesperson
\* that is, was or will be listed.
OwnerInputs == 0..MaxWorkers

\* The sales team and the balancer: salespersons come and go, leads are
\* entered by hand with or without an owner, the balancer runs.
NextBalancer ==
    \/ CreateSalesperson
    \/ \E id \in 1..MaxWorkers, active \in BOOLEAN : UpdateSalesperson(id, active)
    \/ \E id \in 1..MaxWorkers : DeleteSalesperson(id)
    \/ \E ownerId \in OwnerInputs : CreateLead(ownerId)
    \/ AssignUnassignedLeads

SpecBalancer == Init /\ [][NextBalancer]_vars

\* The balancer on the clock: time passes between the handlers, so that the
\* updatedAt a handler writes differs from the one a lead already has.
NextClock ==
    \/ CreateSalesperson
    \/ \E id \in 1..MaxWorkers, active \in BOOLEAN : UpdateSalesperson(id, active)
    \/ \E ownerId \in OwnerInputs : CreateLead(ownerId)
    \/ AssignUnassignedLeads
    \/ Tick

SpecClock == Init /\ [][NextClock]_vars

\* The import pipeline on the clock, fed from the sheet with the columns
\* Full Name, Email, Phone, Status, City.
SheetBatches == SeqsUpTo(SheetInputs, MaxRows)

ImportSheetRows(rows) ==
    Len(leads) < MaxLeads /\ ImportFromCsvRows(rows)

NextSheet ==
    \/ \E rows \in SheetBatches : ImportSheetRows(rows)
    \/ Tick

SpecSheet == InitImport /\ [][NextSheet]_vars

\* ------------------------------------------------------------ import claims
\* No two leads share a normalized email, no two a normalized phone.
IdentityInv(ls) ==
    \A i, j \in 1..Len(ls) :
        i < j => /\ EmailKey(ls[i]) # <<>> => EmailKey(ls[i]) # EmailKey(ls[j])
                 /\ PhoneKey(ls[i]) # <<>> => PhoneKey(ls[i]) # PhoneKey(ls[j])

\* The run of importFromCsvRows on rows in the current state.
RunNow(rows) == ImportRun(leads, salespersons, rows, nextLeadId, clock)
\* The run of importFromCsvRows on rows right after the run first.
RunAfter(first, rows) == ImportRun(first.leads, salespersons, rows, first.nextId, clock)

\* The working collection before row i of a run with log log.
Before(log, i) == IF i = 1 THEN leads ELSE log[i - 1].leads

HasKey(r) == LocalsOf(r).email # <<>> \/ LocalsOf(r).phone # <<>>
SameEmail(r, q) ==
    LocalsOf(r).email # <<>> /\ toLowerCase(LocalsOf(r).email) = toLowerCase(LocalsOf(q).email)
SamePhone(r, q) ==
    LocalsOf(r).phone # <<>> /\ LocalsOf(r).phone = LocalsOf(q).phone

\* C1 (as claimed): a run of importFromCsvRows that starts with pairwise
\* distinct normalized emails and phones in the store ends with pairwise
\* distinct normalized emails and phones. Every step of Spec is one run.
C1_IdentityKeptByImport == [][IdentityInv(leads) => IdentityInv(leads')]_vars

\* C2 (as claimed): the second of two runs on the same rows returns
\* imported = 0 and updated = the number of rows with an email or a phone.
C2_ReimportAsClaimed ==
    \A rows \in Batches : \A first \in {RunNow(rows)} :
        \A second \in {RunAfter(first, rows)} :
            /\ second.imported = 0
            /\ second.updated = Cardinality({i \in 1..Len(rows) : HasKey(rows[i])})

\* No two rows of a run with log log were resolved to the same stored lead.
DistinctTargets(log) ==
    \A i, j \in 1..Len(log) :
        (i < j /\ log[i].outcome = "updated" /\ log[j].outcome = "updated")
            => log[i].id # log[j].id

\* C2 (amended): when no two rows of the first run were resolved to the same
\* stored lead, the second run on the same rows skips the rows the first
\* skipped, creates a lead again for each accepted row with neither email nor
\* phone, and counts every accepted row with an email or a phone as updated.
C2_Reimport ==
    \A rows \in Batches : \A first \in {RunNow(rows)} :
        DistinctTargets(first.log) =>
            \A second \in {RunAfter(first, rows)} :
                LET accepted == {i \in 1..Len(rows) : first.log[i].outcome # "skipped"}
                IN  /\ second.skipped = first.skipped
                    /\ second.imported =
                          Cardinality({i \in accepted : ~HasKey(rows[i])})
                    /\ second.updated =
                          Cardinality({i \in accepted : HasKey(rows[i])})

\* C2 witness: after an import, a batch whose first run updates one stored
\* lead and creates one without email or phone, and whose second run updates
\* one lead, creates one again and skips nothing.
C2_Witness ==
    /\ ret.op = "importFromCsvRows" /\ Len(leads) = 1
    /\ \E rows \in Batches : \E first \in {RunNow(rows)} :
        /\ first.updated = 1 /\ first.imported = 1
        /\ \E second \in {RunAfter(first, rows)} :
            second.updated = 1 /\ second.imported = 1 /\ second.skipped = 0

\* Rows i < j of the batch carry one address in two letter cases, and row i
\* was imported or updated.
CaseVariants(rows, log, i, j) ==
    /\ i < j
    /\ SameEmail(rows[i], rows[j])
    /\ LocalsOf(rows[i]).email # LocalsOf(rows[j]).email
    /\ log[i].outcome # "skipped"

\* C3 (as claimed): the later of two rows whose emails differ only in letter
\* case is counted as an update of the lead of the earlier row.
C3_CaseVariantUpdatesAsClaimed ==
    \A rows \in Batches : \A run \in {RunNow(rows)} :
        \A i, j \in 1..Len(rows) :
            CaseVariants(rows, run.log, i, j) =>
                run.log[j].outcome = "updated" /\ run.log[j].id = run.log[i].id

\* C3 (amended): the later of two rows whose emails differ only in letter
\* case, the earlier having been imported or updated, is counted in skipped;
\* it creates no lead and changes none.
C3_CaseVariantSkipped ==
    \A rows \in Batches : \A run \in {RunNow(rows)} :
        \A i, j \in 1..Len(rows) :
            CaseVariants(rows, run.log, i, j) =>
                /\ run.log[j].outcome = "skipped"
                /\ run.log[j].leads = Before(run.log, j)
                /\ run.skipped >= 1

\* C3 witness: after an import, a batch of the address in upper case, then
\* in lower case, whose first row updates the stored lead with that address
\* and whose second row is skipped.
C3_Witness ==
    /\ ret.op = "importFromCsvRows"
    /\ \E rows \in Batches : \E run \in {RunNow(rows)} :
        /\ Len(rows) = 2 /\ CaseVariants(rows, run.log, 1, 2)
        /\ run.log[1].outcome = "updated"
        /\ run.log[2].outcome = "skipped" /\ run.skipped = 1

\* Row j repeats the normalized email or the normalized phone of an earlier
\* row that was imported or updated.
RepeatsEarlier(rows, log, j) ==
    \E i \in 1..(j - 1) :
        /\ log[i].outcome # "skipped"
        /\ SameEmail(rows[j], rows[i]) \/ SamePhone(rows[j], rows[i])

\* C4: a row that repeats the normalized email or phone of an earlier
\* imported or updated row of the batch is counted in skipped and leaves the
\* working collection as it was.
C4_BatchDuplicateSkipped ==
    \A rows \in Batches : \A run \in {RunNow(rows)} :
        /\ run.imported + run.updated + run.skipped = Len(rows)
        /\ \A j \in 1..Len(rows) :
            RepeatsEarlier(rows, run.log, j) =>
                /\ run.log[j].outcome = "skipped"
                /\ run.log[j].leads = Before(run.log, j)
                /\ run.skipped >=
                      Cardinality({k \in 1..Len(rows) : RepeatsEarlier(rows, run.log, k)})

\* C4 witness: a stored lead was updated by a row with one phone, and the
\* next row, the same phone in another format, was skipped.
C4_Witness ==
    \E rows \in Batches : \E run \in {RunNow(rows)} :
        /\ Len(rows) = 2
        /\ run.log[1].outcome = "updated"
        /\ SamePhone(rows[2], rows[1]) /\ rows[2].Phone # rows[1].Phone
        /\ run.log[2].outcome = "skipped"

\* ---------------------------------------------------------- balancer claims
\* The ids of the active salespersons of sps.
ActiveIds(sps) == {sps[i].id : i \in {j \in 1..Len(sps) : sps[j].active}}
\* The ids of the salespersons of sps.
ListedIds(sps) == {sps[i].id : i \in 1..Len(sps)}
\* The number of leads of ls that w owns.
Owned(ls, w) == Cardinality({i \in 1..Len(ls) : ls[i].ownerId = w})
\* The positions of the leads of ls without owner.
Unowned(ls) == {i \in 1..Len(ls) : ls[i].ownerId = NULL}
\* The active salespersons' counts of owned leads differ by at most one.
Balanced(ls, sps) ==
    \A v, w \in ActiveIds(sps) : Owned(ls, v) <= Owned(ls, w) + 1

\* C5: with k >= 1 active salespersons and n leads, none of them owned, a run
\* of assignUnassignedLeads returns n and leaves every active salesperson
\* with floor(n/k) or ceil(n/k) leads, so that two counts differ by at most 1.
C5_EvenSplit ==
    [][(/\ AssignUnassignedLeads
        /\ ActiveIds(salespersons) # {}
        /\ Unowned(leads) = 1..Len(leads))
       => LET n == Len(leads)
              k == Cardinality(ActiveIds(salespersons))
          IN  /\ ret'.assigned = n
              /\ \A w \in ActiveIds(salespersons) :
                    Owned(leads', w) \in {n \div k, (n + k - 1) \div k}
              /\ Balanced(leads', salespersons)]_vars

\* C5 witness: a run has just given two leads to two active salespersons,
\* one lead each.
C5_Witness ==
    /\ ret.op = "assignUnassignedLeads" /\ ret.assigned = 2 /\ Len(leads) = 2
    /\ Cardinality(ActiveIds(salespersons)) = 2
    /\ \A w \in ActiveIds(salespersons) : Owned(leads, w) = 1

\* The count of w when the run reaches position i: the leads w owned before
\* the run plus the leads the run gave to w at earlier positions.
LoadAt(w, i) ==
    Owned(leads, w)
        + Cardinality({j \in Unowned(leads) : j < i /\ leads'[j].ownerId = w})

\* C6: a run of assignUnassignedLeads gives each lead without owner, in the
\* order of the stored collection, to an active salesperson whose count of
\* owned leads, those given earlier in the run included, is smallest.
C6_LeastLoaded ==
    [][(AssignUnassignedLeads /\ ActiveIds(salespersons) # {})
       => \A i \in Unowned(leads) :
            /\ leads'[i].ownerId \in ActiveIds(salespersons)
            /\ \A v \in ActiveIds(salespersons) :
                    LoadAt(leads'[i].ownerId, i) <= LoadAt(v, i)]_vars

\* C6 witness: of two leads and two active salespersons, one lead had an
\* owner and the run gave the other lead to the other salesperson.
C6_Witness ==
    /\ ret.op = "assignUnassignedLeads" /\ ret.assigned = 1 /\ Len(leads) = 2
    /\ Cardinality(ActiveIds(salespersons)) = 2
    /\ \A w \in ActiveIds(salespersons) : Owned(leads, w) = 1
    /\ \E i \in 1..2 : leads[i].updatedAt = leads[i].createdAt

\* C7: without active salesperson, or without lead whose owner is null,
\* assignUnassignedLeads returns 0 and leaves leads, salespersons and config
\* as they were.
C7_NothingToDo ==
    [][(/\ AssignUnassignedLeads
        /\ ActiveIds(salespersons) = {} \/ Unowned(leads) = {})
       => /\ ret'.assigned = 0
          /\ UNCHANGED <<leads, salespersons, config, supabase>>]_vars

\* C7 witness: a run returned 0 although a lead has no owner: the only
\* salesperson is not active.
C7_Witness ==
    /\ ret.op = "assignUnassignedLeads" /\ ret.assigned = 0
    /\ Unowned(leads) # {}
    /\ Len(salespersons) = 1 /\ ActiveIds(salespersons) = {}

C9_DeleteUnassigns ==
    [][/\ \A id \in 1..MaxWorkers :
            DeleteSalesperson(id)
            => /\ id \notin ListedIds(salespersons')
               /\ Len(leads') = Len(leads)
               /\ \A i \in 1..Len(leads) :
                    leads'[i] = IF leads[i].ownerId = id
                                THEN [leads[i] EXCEPT !.ownerId = NULL]
                                ELSE leads[i]
       /\ \A w \in ListedIds(salespersons') \ ListedIds(salespersons) :
            w = nextWorkerId /\ nextWorkerId' > w
       /\ \A w \in ListedIds(salespersons) : w < nextWorkerId
       /\ AssignUnassignedLeads
            => \A i \in Unowned(leads) :
                    leads'[i].ownerId \in ListedIds(salespersons) \cup {NULL}]_vars

\* C9 witness: deleteSalesperson has just removed a salesperson that owned a
\* lead, and another lead keeps its owner.
C9_Witness ==
    /\ ret.op = "deleteSalesperson" /\ ret.unassigned = 1
    /\ ret.id \notin ListedIds(salespersons)
    /\ Len(leads) = 2 /\ Cardinality(Unowned(leads)) = 1
    /\ \E i \in 1..2 : leads[i].ownerId \in ListedIds(salespersons)

\* C10: updateSalesperson setting active to false leaves every lead with its
\* owner and the salesperson listed as not active; and a run of
\* assignUnassignedLeads gives leads to active salespersons only.
C10_DeactivateKeepsLeads ==
    [][/\ \A id \in 1..MaxWorkers :
            UpdateSalesperson(id, FALSE)
            => /\ leads' = leads
               /\ id \notin ActiveIds(salespersons')
               /\ ListedIds(salespersons') = ListedIds(salespersons)
       /\ AssignUnassignedLeads
            => \A i \in 1..Len(leads) :
                    \/ leads'[i].ownerId = leads[i].ownerId
                    \/ leads'[i].ownerId \in ActiveIds(salespersons)]_vars

\* C10 witness: a salesperson that is not active keeps a lead while a run
\* has just given the other lead to the active salesperson.
C10_Witness ==
    /\ ret.op = "assignUnassignedLeads" /\ ret.assigned = 1 /\ Len(leads) = 2
    /\ Cardinality(ActiveIds(salespersons)) = 1
    /\ \E w \in ListedIds(salespersons) \ ActiveIds(salespersons) :
            Owned(leads, w) = 1
    /\ \E w \in ActiveIds(salespersons) : Owned(leads, w) = 1

\* ------------------------------------------------------- classifier claims
\* The batches of one row and of two rows that a sheet can deliver.
SheetPairs ==
    {<<a>> : a \in SheetInputs} \cup {<<a, b>> : a, b \in SheetInputs}

\* The cells of r that are not empty.
NonEmptyCells(r) == {k \in DOMAIN r : r[k] # <<>>}

\* r has exactly one non-empty cell, and it is an artifact.
IsArtifactRow(r) ==
    /\ Cardinality(NonEmptyCells(r)) = 1
    /\ \E k \in NonEmptyCells(r) : r[k] \in ArtifactCells

\* C11: a row with exactly one non-empty cell that is date-like, a running
\* total label or a bare number is counted in skipped and neither creates nor
\* modifies a lead, alone or after other rows of a batch.
C11_ArtifactSkipped ==
    /\ \A v \in ArtifactCells : \A run \in {RunNow(<<CellRow(v)>>)} :
        /\ run.skipped = 1 /\ run.imported = 0 /\ run.updated = 0
        /\ run.log[1].leads = leads
    /\ \A rows \in SheetPairs : \A run \in {RunNow(rows)} :
        \A i \in 1..Len(rows) :
            IsArtifactRow(rows[i]) =>
                /\ run.log[i].outcome = "skipped"
                /\ run.log[i].leads = Before(run.log, i)

\* C11 witness: leads are stored, and the row {"Full Name": "42"} after an
\* accepted row is the one row of the batch that is skipped.
C11_Witness ==
    /\ ret.op = "importFromCsvRows" /\ Len(leads) >= 1
    /\ \E rows \in SheetPairs : \E run \in {RunNow(rows)} :
        /\ Len(rows) = 2 /\ rows[2] = CellRow(FortyTwo)
        /\ run.log[1].outcome = "updated"
        /\ run.log[2].outcome = "skipped" /\ run.skipped = 1

\* The columns that count as key fields of a lead.
KeyFieldNames ==
    {"Full Name", "Phone", "Email",
     "what_is_your_average_monthly_electricity_bill?",
     "what_type_of_property_do_you_want_to_install_solar_on?"}

\* r carries a derived name, email or phone, or two populated key fields.
HasRealSignal(r) ==
    \/ LocalsOf(r).name # <<>>
    \/ LocalsOf(r).email # <<>>
    \/ LocalsOf(r).phone # <<>>
    \/ Cardinality({k \in DOMAIN r \cap KeyFieldNames : r[k] # <<>>}) >= 2

\* C12 (as claimed): every row that importFromCsvRows counts as imported or
\* updated carries a derived name, email or phone, or two populated key
\* fields; a row with several non-empty cells and none of these is counted
\* in skipped and creates no lead.
C12_RealSignalAtImport ==
    \A rows \in SheetPairs : \A run \in {RunNow(rows)} :
        \A i \in 1..Len(rows) :
            run.log[i].outcome # "skipped" => HasRealSignal(rows[i])

\* ------------------------------------------------------------ merge claims
\* The lead of ls with the id id.
LeadById(ls, id) == ls[CHOOSE i \in 1..Len(ls) : ls[i].id = id]

\* The convenience value the row r supplies for the field f, <<>> if none.
Supplied(r, f) ==
    IF f = "status" THEN trim(FirstTruthy(r, <<"status", "Status">>))
    ELSE LocalsOf(r)[f]

ConvenienceFields == {"name", "email", "phone", "company", "source", "status", "notes"}

\* C13 (as claimed): when a row matches a stored lead, each of the lead's
\* name, email, phone, company, source, status and notes changes only if the
\* row supplies a non-empty value for it; a row without status leaves the
\* status as it was.
C13_MergeKeepsUnsupplied ==
    \A r \in SheetInputs : \A run \in {RunNow(<<r>>)} :
        run.log[1].outcome = "updated" =>
            \A f \in ConvenienceFields :
                LeadById(run.log[1].leads, run.log[1].id)[f]
                        # LeadById(leads, run.log[1].id)[f]
                    => Supplied(r, f) # <<>>

\* The columns of r with a non-empty value.
Populated(r) == {k \in DOMAIN r : trim(r[k]) # <<>>}

C15_LaterRowsSeeEarlier ==
    \A rows \in SheetPairs : \A run \in {RunNow(rows)} :
        (/\ Len(rows) = 2
         /\ run.log[1].outcome = "updated" /\ run.log[2].outcome = "updated"
         /\ run.log[1].id = run.log[2].id) =>
            LET first  == LeadById(run.log[1].leads, run.log[1].id)
                second == LeadById(run.log[2].leads, run.log[2].id)
            IN  /\ DOMAIN first.fields \subseteq DOMAIN second.fields
                /\ \A k \in DOMAIN first.fields \ Populated(rows[2]) :
                    k \in DOMAIN second.fields
                        => second.fields[k] = first.fields[k]
                /\ \A f \in ConvenienceFields \ {"status"} :
                    Supplied(rows[2], f) = <<>> => second[f] = first[f]

\* ------------------------------------------------------------------ CSV text
Quote == "\""

\* crm.ts 715: cur.replace(/""/g, '"'), pairs taken from the left
RECURSIVE ReplaceDoubledFrom(_, _)
ReplaceDoubledFrom(s, i) ==
    IF i > Len(s) THEN <<>>
    ELSE IF s[i] = Quote /\ i < Len(s) /\ s[i + 1] = Quote
         THEN <<Quote>> \o ReplaceDoubledFrom(s, i + 2)
         ELSE <<s[i]>> \o ReplaceDoubledFrom(s, i + 1)

\* crm.ts 714-718
pushCell(st) ==
    [st EXCEPT !.arr = Append(@, IF st.inQuotes
                                 THEN ReplaceDoubledFrom(st.cur, 1)
                                 ELSE st.cur),
               !.cur = <<>>,
               !.inQuotes = FALSE]

\* crm.ts 738-739, 746: rows.push([...arr]); arr.length = 0
pushRow(st) == [st EXCEPT !.rows = Append(@, st.arr), !.arr = <<>>]

\* A doubled quote inside quotes is kept as the two characters it is.
QuotedCharKeepingPair(text, i, st) ==
    IF text[i] = Quote /\ i < Len(text) /\ text[i + 1] = Quote
    THEN [st |-> [st EXCEPT !.cur = @ \o <<Quote, Quote>>], next |-> i + 2]
    ELSE IF text[i] = Quote
         THEN [st |-> [st EXCEPT !.inQuotes = FALSE], next |-> i + 1]
         ELSE [st |-> [st EXCEPT !.cur = Append(@, text[i])], next |-> i + 1]

\* crm.ts 721-730: one character read inside quotes
QuotedChar(text, i, st) ==
    IF text[i] = Quote /\ i < Len(text) /\ text[i + 1] = Quote
    THEN [st |-> [st EXCEPT !.cur = Append(@, Quote)], next |-> i + 2]
    ELSE IF text[i] = Quote
         THEN [st |-> [st EXCEPT !.inQuotes = FALSE], next |-> i + 1]
         ELSE [st |-> [st EXCEPT !.cur = Append(@, text[i])], next |-> i + 1]

\* crm.ts 731-744: one character read outside quotes
PlainChar(text, i, st) ==
    [next |-> i + 1,
     st |-> IF text[i] = Quote THEN [st EXCEPT !.inQuotes = TRUE]
            ELSE IF text[i] = "," THEN pushCell(st)
            ELSE IF text[i] = "\n" THEN pushRow(pushCell(st))
            ELSE IF text[i] = "\r" THEN st
            ELSE [st EXCEPT !.cur = Append(@, text[i])]]

\* crm.ts 719-745: the loop over the characters of text
RECURSIVE ScanFrom(_, _, _)
ScanFrom(text, i, st) ==
    IF i > Len(text) THEN st
    ELSE With(IF st.inQuotes THEN QuotedChar(text, i, st)
                             ELSE PlainChar(text, i, st),
              LAMBDA step : ScanFrom(text, step.next, step.st))

\* crm.ts 710-747: the rows of cells of text
ScanCells(text) ==
    With(ScanFrom(text, 1, [cur |-> <<>>, inQuotes |-> FALSE,
                            arr |-> <<>>, rows |-> <<>>]),
         LAMBDA st : pushRow(pushCell(st)).rows)

\* crm.ts 755: row[j] ?? ""
CellAt(row, j) == IF j <= Len(row) THEN row[j] ELSE <<>>

\* crm.ts 753-757: obj[headers[j]] = (row[j] ?? "").trim() for j ascending,
\* so that the last column of a name gives the value of its key
RowObject(headers, row) ==
    [h \in {headers[j] : j \in 1..Len(headers)} |->
        trim(CellAt(row, SetMax({j \in 1..Len(headers) : headers[j] = h})))]

\* crm.ts 751-759
RECURSIVE DataRowsFrom(_, _, _)
DataRowsFrom(headers, cells, i) ==
    IF i > Len(cells) THEN <<>>
    ELSE IF \A j \in 1..Len(cells[i]) : trim(cells[i][j]) = <<>>
         THEN DataRowsFrom(headers, cells, i + 1)
         ELSE <<RowObject(headers, cells[i])>>
                  \o DataRowsFrom(headers, cells, i + 1)

\* crm.ts 706-762
parseCSV(text) ==
    With(ScanCells(text), LAMBDA cells :
        IF Len(cells) = 0 THEN [headers |-> <<>>, rows |-> <<>>]
        ELSE With([j \in 1..Len(cells[1]) |-> trim(cells[1][j])],
                  LAMBDA headers :
                      [headers |-> headers,
                       rows |-> DataRowsFrom(headers, cells, 2)]))

\* The characters of the CSV texts and of the phone numbers.
TextChars == {"a", ",", Quote, "\n", "\r", " "}
PhoneChars == {"1", "+", "-", "("}

\* "Smith, ""Bob"" Jr." with its enclosing quotes, and the cell it stands for
SmithText ==
    <<Quote, "S", "m", "i", "t", "h", ",", " ", Quote, Quote, "B", "o", "b",
      Quote, Quote, " ", "J", "r", ".", Quote>>
SmithCell ==
    <<"S", "m", "i", "t", "h", ",", " ", Quote, "B", "o", "b", Quote, " ",
      "J", "r", ".">>
HeaderLine == <<"a", "\n">>

TextInputs ==
    SeqsUpTo(TextChars, MaxText) \cup {SmithText, HeaderLine \o SmithText}
        \cup {HeaderLine \o t : t \in SeqsUpTo({Quote, ",", "a"}, MaxText)}
PhoneInputs == SeqsUpTo(PhoneChars, MaxText)

\* A text arrives to be parsed, or a phone number to be normalized.
InitText ==
    /\ leads = <<>>
    /\ salespersons = <<>>
    /\ config = [sheetUrl |-> "default", lastSyncAt |-> <<>>, headers |-> <<>>]
    /\ clock = 0
    /\ nextLeadId = 1
    /\ nextWorkerId = 1
    /\ ret \in {[op |-> "text", text |-> t] : t \in TextInputs}
            \cup {[op |-> "phone", p |-> p] : p \in PhoneInputs}
    /\ supabase = [configured |-> FALSE, leads |-> {}]
    /\ flights = NoFlights

ParseCSV ==
    /\ ret.op = "text"
    /\ ret' = [op |-> "parseCSV", text |-> ret.text, parsed |-> parseCSV(ret.text)]
    /\ UNCHANGED <<leads, salespersons, config, clock, nextLeadId, nextWorkerId, supabase, flights>>

NormalizePhone ==
    /\ ret.op = "phone"
    /\ ret' = [op |-> "normalizePhone", p |-> ret.p, out |-> normalizePhone(ret.p)]
    /\ UNCHANGED <<leads, salespersons, config, clock, nextLeadId, nextWorkerId, supabase, flights>>

NextText ==
    \/ ParseCSV
    \/ NormalizePhone

SpecText == InitText /\ [][NextText]_vars

\* -------------------------------------------------------------- text claims
\* p without every character that is neither a digit nor a '+' with no
\* retained character before it.
RECURSIVE KeepLeadingPlusFrom(_, _, _)
KeepLeadingPlusFrom(p, i, kept) ==
    IF i > Len(p) THEN kept
    ELSE IF p[i] \in Digits \/ (p[i] = "+" /\ kept = <<>>)
         THEN KeepLeadingPlusFrom(p, i + 1, Append(kept, p[i]))
         ELSE KeepLeadingPlusFrom(p, i + 1, kept)

\* C16 (as claimed): normalizePhone(p) is p with every character removed
\* except digits and a '+' in leading position; a '+' after another retained
\* character is removed.
C16_LeadingPlusOnly ==
    ret.op = "normalizePhone" => ret.out = KeepLeadingPlusFrom(ret.p, 1, <<>>)

\* Every quote of s from position i on is half of a doubled quote.
RECURSIVE QuotesDoubledFrom(_, _)
QuotesDoubledFrom(s, i) ==
    IF i > Len(s) THEN TRUE
    ELSE IF s[i] = Quote
         THEN i < Len(s) /\ s[i + 1] = Quote /\ QuotesDoubledFrom(s, i + 2)
         ELSE QuotesDoubledFrom(s, i + 1)

\* t is one field enclosed in double quotes.
IsQuotedField(t) ==
    /\ Len(t) >= 2 /\ t[1] = Quote /\ t[Len(t)] = Quote
    /\ QuotesDoubledFrom(SubSeq(t, 2, Len(t) - 1), 1)

\* s with one quote for each doubled quote.
RECURSIVE HalveQuotesFrom(_, _)
HalveQuotesFrom(s, i) ==
    IF i > Len(s) THEN <<>>
    ELSE IF s[i] = Quote THEN <<Quote>> \o HalveQuotesFrom(s, i + 2)
         ELSE <<s[i]>> \o HalveQuotesFrom(s, i + 1)

\* The cell that the quoted field t stands for, as parseCSV returns cells.
QuotedValue(t) == trim(HalveQuotesFrom(SubSeq(t, 2, Len(t) - 1), 1))

\* C17: a text that is one field enclosed in double quotes parses to the one
\* header cell with the commas of the field and one quote for each doubled
\* quote, and the same field on the line after the header line "a" parses to
\* the one record with that value (no record when the value is blank).
C17_QuotedField ==
    ret.op = "parseCSV" =>
        /\ IsQuotedField(ret.text) =>
            /\ ret.parsed.headers = <<QuotedValue(ret.text)>>
            /\ ret.parsed.rows = <<>>
        /\ (/\ StartsWith(ret.text, HeaderLine)
            /\ IsQuotedField(SubSeq(ret.text, 3, Len(ret.text)))) =>
            LET v == QuotedValue(SubSeq(ret.text, 3, Len(ret.text)))
            IN  /\ ret.parsed.headers = <<<<"a">>>>
                /\ ret.parsed.rows =
                       IF v = <<>> THEN <<>> ELSE <<[h \in {<<"a">>} |-> v]>>

\* C17 witness: "Smith, ""Bob"" Jr." under the header a has been parsed to
\* the one record whose value is Smith, "Bob" Jr.
C17_Witness ==
    /\ ret.op = "parseCSV" /\ ret.text = HeaderLine \o SmithText
    /\ Len(ret.parsed.rows) = 1
    /\ ret.parsed.rows[1][<<"a">>] = SmithCell

\* C18 (as claimed): no record returned by parseCSV has all of its values
\* empty.
C18_NoBlankRecord ==
    ret.op = "parseCSV" =>
        \A i \in 1..Len(ret.parsed.rows) :
            \E h \in DOMAIN ret.parsed.rows[i] : ret.parsed.rows[i][h] # <<>>

\* ---------------------------------------------------------------- the feed
EmailHeader == <<"E", "m", "a", "i", "l">>
PhoneHeader == <<"P", "h", "o", "n", "e">>
Comma == <<",">>
LineFeed == <<"\n">>
HeaderText == EmailHeader \o Comma \o PhoneHeader

\* The CSV texts that the sheet can export.
FeedTexts ==
    { HeaderText,
      HeaderText \o LineFeed \o JaneLower \o Comma \o Phone34,
      HeaderText \o LineFeed \o JaneUpper \o Comma
                 \o LineFeed \o Comma \o Phone3d4,
      HeaderText \o LineFeed \o Bob \o Comma \o Phone12 \o LineFeed }

\* What fetch(url) meets: the sheet's export, a response whose status is not
\* a success (with the body it carries), or no response at all.
Feeds ==
    {[kind |-> "ok", text |-> t] : t \in FeedTexts}
        \cup {[kind |-> "status",
               text |-> HeaderText \o LineFeed \o JaneLower \o Comma \o Phone34],
              [kind |-> "down", text |-> <<>>]}

\* The sheetUrl of a request body: none, the address of a Google sheet as the
\* browser shows it, an address elsewhere.
BodyUrls == {"", "edit", "other"}

\* parseCSV(text), computed once for the texts of the feed.
ParsedFeed == [t \in FeedTexts |-> parseCSV(t)]
ParsedText(text) == IF text \in FeedTexts THEN ParsedFeed[text] ELSE parseCSV(text)

\* The property keys that the row loop reads, for the column names of the feed.
KeyOf == (EmailHeader :> "Email") @@ (PhoneHeader :> "Phone")

KeyedRow(obj) ==
    [k \in {KeyOf[h] : h \in DOMAIN obj} |->
        obj[CHOOSE h \in DOMAIN obj : KeyOf[h] = k]]

KeyedRows(rows) == [i \in 1..Len(rows) |-> KeyedRow(rows[i])]

\* fetchCsvText returning the body whatever the status of the response.
fetchCsvTextAnyStatus(feed) ==
    IF feed.kind = "down" THEN [thrown |-> TRUE, text |-> <<>>]
    ELSE [thrown |-> FALSE, text |-> feed.text]

\* scheduler.ts 37-41
fetchCsvText(feed) ==
    IF feed.kind = "ok" THEN [thrown |-> FALSE, text |-> feed.text]
    ELSE [thrown |-> TRUE, text |-> <<>>]

\* scheduler.ts 43-47: "edit" is a docs.google.com/spreadsheets/d/<id> address
\* and "export" its export?format=csv form; "default" is already such a form.
toCsvExportUrl(u) == IF u = "edit" THEN "export" ELSE u

\* crm.ts 135-140, 149-195: the first candidate key whose value in fields is
\* not blank
RECURSIVE getFieldValueFrom(_, _, _)
getFieldValueFrom(fields, candidates, i) ==
    IF i > Len(candidates) THEN <<>>
    ELSE IF candidates[i] # "" /\ candidates[i] \in DOMAIN fields
              /\ trim(fields[candidates[i]]) # <<>>
         THEN fields[candidates[i]]
         ELSE getFieldValueFrom(fields, candidates, i + 1)

getFieldValue(fields, candidates) == getFieldValueFrom(fields, candidates, 1)

\* a || b
Or(a, b) == IF a # <<>> THEN a ELSE b

\* crm.ts 197-210 and 53-66: the lead that supabaseListLeads reads back from
\* the row that saveLeads posts for l
PostedRow(l) ==
    [l EXCEPT
        !.name = Or(l.name, getFieldValue(l.fields,
                        <<"full name", "Full Name", "name", "Name">>)),
        !.email = Or(l.email, getFieldValue(l.fields,
                        <<"email", "Email", "e-mail", "E-mail">>)),
        !.phone = Or(l.phone, getFieldValue(l.fields,
                        <<"phone", "Phone", "mobile", "Mobile">>)),
        !.status = Or(Or(l.status, getFieldValue(l.fields,
                        <<"lead_status", "Lead Status", "lead status", "status">>)),
                      StatusNew)]

\* crm.ts 223-226: the table after the rows of list are posted, each taking
\* the place of the row with its id
Posted(table, list) ==
    {r \in table : \A i \in 1..Len(list) : list[i].id # r.id}
        \cup {PostedRow(list[i]) : i \in 1..Len(list)}

\* crm.ts 50-51: the rows of the table by created_at, latest first, rows of
\* one instant in any order
RECURSIVE supabaseListLeads(_)
supabaseListLeads(table) ==
    IF table = {} THEN {<<>>}
    ELSE UNION {{<<l>> \o rest : rest \in supabaseListLeads(table \ {l})} :
                    l \in {x \in table : \A y \in table : x.createdAt >= y.createdAt}}

\* crm.ts 96-116: the leads that getState can return
StateLeads(sb, file) ==
    IF sb.configured THEN supabaseListLeads(sb.leads) ELSE {file}

\* crm.ts 142-234: the store after saveLeads(list), when Supabase rejects the
\* post of list[k] (k = 0: no post is rejected). The posts before it are
\* made, the catch of line 229 takes the error and the list goes to
\* leads.json; the call returns in either case.
saveLeads(sb, file, list, k) ==
    IF ~sb.configured THEN [supabase |-> sb, leads |-> list]
    ELSE IF k = 0
         THEN [supabase |-> [sb EXCEPT !.leads = Posted(@, list)],
               leads |-> file]
         ELSE [supabase |-> [sb EXCEPT !.leads = Posted(@, SubSeq(list, 1, k - 1))],
               leads |-> list]

\* crm.ts 517-545 called at line 698: the store after assignUnassignedLeads,
\* and the count it returns
AssignStored(store, sps, now, k) ==
    UNION {With(AssignResult(ls, sps, now), LAMBDA res :
               IF k > Len(res.leads) \/ (k > 0 /\ res.assigned = 0) THEN {}
               ELSE {[store |-> IF res.assigned > 0
                                THEN saveLeads(store.supabase, store.leads,
                                               res.leads, k)
                                ELSE store,
                      assigned |-> res.assigned]}) :
           ls \in StateLeads(store.supabase, store.leads)}

\* crm.ts 559-700: the stores that importFromCsvRows(rows) can leave and the
\* counts it returns, when Supabase rejects post k1 of the save of line 697
\* and post k2 of the save of assignUnassignedLeads. Only a configured
\* Supabase rejects.
ImportOutcomes(sb, file, sps, rows, firstId, now, k1, k2) ==
    IF ~sb.configured /\ (k1 > 0 \/ k2 > 0) THEN {}
    ELSE UNION {With(ImportRows(ls, rows, firstId, now), LAMBDA st :
                   IF k1 > Len(st.leads) THEN {}
                   ELSE {[store |-> a.store, nextId |-> st.nextId,
                          imported |-> st.imported, updated |-> st.updated,
                          assigned |-> a.assigned, skipped |-> st.skipped] :
                         a \in AssignStored(saveLeads(sb, file, st.leads, k1),
                                            sps, now, k2)}) :
                ls \in StateLeads(sb, file)}

\* The posts that Supabase can reject in one save: none, or the k-th.
Rejections == 0..MaxStored

\* scheduler.ts 63-84
ImportSheet(bodyUrl, feed, k1, k2) ==
    \E sheetUrl \in {toCsvExportUrl(IF bodyUrl # "" THEN bodyUrl
                                    ELSE config.sheetUrl)} :
        IF sheetUrl = ""
        THEN /\ k1 = 0 /\ k2 = 0
             /\ ret' = [op |-> "importSheet", status |-> 400]
             /\ UNCHANGED <<leads, salespersons, config, clock,
                            nextLeadId, nextWorkerId, supabase, flights>>
        ELSE \E csv \in {fetchCsvText(feed)} :
            IF csv.thrown
            THEN /\ k1 = 0 /\ k2 = 0
                 /\ ret' = [op |-> "importSheet", status |-> 500]
                 /\ UNCHANGED <<leads, salespersons, config, clock,
                                nextLeadId, nextWorkerId, supabase, flights>>
            ELSE \E parsed \in {ParsedText(csv.text)} :
                 \E run \in ImportOutcomes(supabase, leads, salespersons,
                                           KeyedRows(parsed.rows),
                                           nextLeadId, clock, k1, k2) :
                    /\ Len(run.store.leads) <= MaxStored
                    /\ Cardinality(run.store.supabase.leads) <= MaxStored
                    /\ leads' = run.store.leads
                    /\ supabase' = run.store.supabase
                    /\ nextLeadId' = run.nextId
                    /\ config' = [sheetUrl |-> sheetUrl,
                                  lastSyncAt |-> <<clock>>,
                                  headers |-> parsed.headers]
                    /\ ret' = [op |-> "importSheet", status |-> 200,
                               imported |-> run.imported,
                               updated |-> run.updated,
                               assigned |-> run.assigned,
                               skipped |-> run.skipped,
                               lastSyncAt |-> <<clock>>]
                    /\ UNCHANGED <<salespersons, clock, nextWorkerId, flights>>


\* scheduler.ts 11-12: const rows = parseCSV(csv) binds the object
\* { headers, rows }, which is no array and cannot be iterated.
RunOnceRows(parsed) == [iterable |-> FALSE, rows |-> <<>>]

\* scheduler.ts 3-19: the run returns at line 7 without an address, at line 9
\* on a status that is not a success, and leaves through the catch of line 16
\* when fetch rejects; with a body, line 12 hands importFromCsvRows the value
\* bound at line 11, on which the for-of of crm.ts 583 throws before any
\* write when it cannot be iterated, and the catch of line 16 ends the run.
RunOnce(feed) ==
    /\ ret' = [op |-> "runOnce"]
    /\ IF config.sheetUrl = "" \/ feed.kind # "ok"
       THEN UNCHANGED <<leads, salespersons, config, clock, nextLeadId,
                        nextWorkerId, supabase, flights>>
       ELSE \E arg \in {RunOnceRows(ParsedText(feed.text))} :
            IF ~arg.iterable
            THEN UNCHANGED <<leads, salespersons, config, clock, nextLeadId,
                             nextWorkerId, supabase, flights>>
            ELSE \E run \in ImportOutcomes(supabase, leads, salespersons,
                                           arg.rows, nextLeadId, clock, 0, 0) :
                    /\ Len(run.store.leads) <= MaxStored
                    /\ leads' = run.store.leads
                    /\ supabase' = run.store.supabase
                    /\ nextLeadId' = run.nextId
                    /\ config' = IF run.imported > 0 \/ run.updated > 0
                                       \/ run.assigned > 0
                                 THEN [config EXCEPT !.lastSyncAt = <<clock>>]
                                 ELSE config
                    /\ UNCHANGED <<salespersons, clock, nextWorkerId, flights>>

NextSync ==
    \/ \E bodyUrl \in BodyUrls, feed \in Feeds : ImportSheet(bodyUrl, feed, 0, 0)
    \/ \E feed \in Feeds : RunOnce(feed)
    \/ Tick

SpecSync == InitImport /\ [][NextSync]_vars

\* Supabase is configured, its leads table is empty, and the one active
\* salesperson is there.
InitStore ==
    /\ leads = <<>>
    /\ salespersons = <<[id |-> 1, active |-> TRUE]>>
    /\ config = [sheetUrl |-> "default", lastSyncAt |-> <<>>, headers |-> <<>>]
    /\ clock = 0
    /\ nextLeadId = 1
    /\ nextWorkerId = 2
    /\ ret = [op |-> "none"]
    /\ supabase = [configured |-> TRUE, leads |-> {}]
    /\ flights = NoFlights

\* The sheet is imported on demand while Supabase may reject posts of leads,
\* until MaxLeads leads have been created.
NextStore ==
    \E feed \in Feeds, k1, k2 \in Rejections :
        ImportSheet("", feed, k1, k2) /\ nextLeadId' <= MaxLeads + 1

SpecStore == InitStore /\ [][NextStore]_vars

\* The records of the feed f, as the row loop reads them.
FeedRows(f) == KeyedRows(ParsedText(f.text).rows)

\* --------------------------------------------------------- handlers in flight
\* A handler runs from one await to the next without interruption; between
\* two of its steps any other handler may take steps. The reads of getState
\* and the loop that follows it are one step, each save is one step.

\* The feed that the overlapping runs read.
OverlapFeeds ==
    {[kind |-> "ok", text |-> HeaderText \o LineFeed \o JaneLower \o Comma \o Phone34]}

\* scheduler.ts 63-77, crm.ts 563-695: importSheet reads the state, fetches
\* and parses the feed; importFromCsvRows reads the state and runs the row
\* loop on it.
BeginImportSheet(p, feed) ==
    /\ flights[p] = Idle
    /\ \E ls \in StateLeads(supabase, leads) :
       \E st \in {ImportRows(ls, FeedRows(feed), nextLeadId, clock)} :
            /\ st.nextId <= MaxLeads + 1
            /\ nextLeadId' = st.nextId
            /\ flights' = [flights EXCEPT ![p] =
                    [op |-> "importSheet", pc |-> "saveLeads",
                     list |-> st.leads, imported |-> st.imported,
                     updated |-> st.updated, skipped |-> st.skipped,
                     assigned |-> 0,
                     sheetUrl |-> toCsvExportUrl(config.sheetUrl),
                     headers |-> ParsedText(feed.text).headers]]
    /\ UNCHANGED <<leads, salespersons, config, clock, nextWorkerId, ret, supabase>>

\* crm.ts 697: await saveLeads(state.leads)
SaveImported(p) ==
    /\ flights[p].op = "importSheet" /\ flights[p].pc = "saveLeads"
    /\ \E store \in {saveLeads(supabase, leads, flights[p].list, 0)} :
            /\ leads' = store.leads
            /\ supabase' = store.supabase
    /\ flights' = [flights EXCEPT ![p].pc = "assign"]
    /\ UNCHANGED <<salespersons, config, clock, nextLeadId, nextWorkerId, ret>>

\* crm.ts 698, 518-543: assignUnassignedLeads reads the state and assigns
ReadForAssign(p) ==
    /\ flights[p].op \in {"importSheet", "assignLeads"} /\ flights[p].pc = "assign"
    /\ \E ls \in StateLeads(supabase, leads) :
       \E res \in {AssignResult(ls, salespersons, clock)} :
            flights' = [flights EXCEPT ![p] =
                IF res.assigned > 0
                THEN [@ EXCEPT !.pc = "saveAssigned", !.list = res.leads,
                               !.assigned = res.assigned]
                ELSE [@ EXCEPT !.pc = "answer"]]
    /\ UNCHANGED <<leads, salespersons, config, clock, nextLeadId, nextWorkerId,
                   ret, supabase>>

\* crm.ts 543: if (assigned > 0) await saveLeads(leads)
SaveAssigned(p) ==
    /\ flights[p].op \in {"importSheet", "assignLeads"} /\ flights[p].pc = "saveAssigned"
    /\ \E store \in {saveLeads(supabase, leads, flights[p].list, 0)} :
            /\ leads' = store.leads
            /\ supabase' = store.supabase
    /\ flights' = [flights EXCEPT ![p].pc = "answer"]
    /\ UNCHANGED <<salespersons, config, clock, nextLeadId, nextWorkerId, ret>>

\* scheduler.ts 78-80: saveConfig and the answer of importSheet
AnswerImportSheet(p) ==
    /\ flights[p].op = "importSheet" /\ flights[p].pc = "answer"
    /\ config' = [sheetUrl |-> flights[p].sheetUrl, lastSyncAt |-> <<clock>>,
                  headers |-> flights[p].headers]
    /\ ret' = [op |-> "importSheet", status |-> 200, run |-> p,
               imported |-> flights[p].imported, updated |-> flights[p].updated,
               assigned |-> flights[p].assigned, skipped |-> flights[p].skipped]
    /\ flights' = [flights EXCEPT ![p] = Idle]
    /\ UNCHANGED <<leads, salespersons, clock, nextLeadId, nextWorkerId, supabase>>

\* scheduler.ts 86-89: the handler assignLeads calls assignUnassignedLeads
BeginAssignLeads(p) ==
    /\ flights[p] = Idle
    /\ flights' = [flights EXCEPT ![p] =
            [op |-> "assignLeads", pc |-> "assign", list |-> <<>>, assigned |-> 0]]
    /\ UNCHANGED <<leads, salespersons, config, clock, nextLeadId, nextWorkerId,
                   ret, supabase>>

\* scheduler.ts 88: res.json({ assigned })
AnswerAssignLeads(p) ==
    /\ flights[p].op = "assignLeads" /\ flights[p].pc = "answer"
    /\ ret' = [op |-> "assignLeads", run |-> p, assigned |-> flights[p].assigned]
    /\ flights' = [flights EXCEPT ![p] = Idle]
    /\ UNCHANGED <<leads, salespersons, config, clock, nextLeadId, nextWorkerId,
                   supabase>>

\* crm.ts 414-449: createLead builds the lead; with Supabase it posts the
\* lead (438-444), else it reads the state.
BeginCreateLead(p) ==
    /\ flights[p] = Idle
    /\ nextLeadId <= MaxLeads
    /\ nextLeadId' = nextLeadId + 1
    /\ \E lead \in {BuildLead(nextLeadId, NULL, clock)} :
        IF supabase.configured
        THEN /\ supabase' = [supabase EXCEPT !.leads = @ \cup {lead}]
             /\ flights' = [flights EXCEPT ![p] =
                    [op |-> "createLead", pc |-> "answer", list |-> <<>>, id |-> lead.id]]
        ELSE /\ flights' = [flights EXCEPT ![p] =
                    [op |-> "createLead", pc |-> "saveLeads",
                     list |-> <<lead>> \o leads, id |-> lead.id]]
             /\ UNCHANGED supabase
    /\ UNCHANGED <<leads, salespersons, config, clock, nextWorkerId, ret>>

\* crm.ts 450: await saveLeads([lead, ...state.leads])
SaveCreated(p) ==
    /\ flights[p].op = "createLead" /\ flights[p].pc = "saveLeads"
    /\ \E store \in {saveLeads(supabase, leads, flights[p].list, 0)} :
            /\ leads' = store.leads
            /\ supabase' = store.supabase
    /\ flights' = [flights EXCEPT ![p].pc = "answer"]
    /\ UNCHANGED <<salespersons, config, clock, nextLeadId, nextWorkerId, ret>>

\* crm.ts 444, 451: return lead
AnswerCreateLead(p) ==
    /\ flights[p].op = "createLead" /\ flights[p].pc = "answer"
    /\ ret' = [op |-> "createLead", run |-> p, id |-> flights[p].id]
    /\ flights' = [flights EXCEPT ![p] = Idle]
    /\ UNCHANGED <<leads, salespersons, config, clock, nextLeadId, nextWorkerId,
                   supabase>>

\* The store is the files or Supabase; no handler is in flight.
InitOverlap ==
    /\ leads = <<>>
    /\ salespersons = <<[id |-> 1, active |-> TRUE]>>
    /\ config = [sheetUrl |-> "default", lastSyncAt |-> <<>>, headers |-> <<>>]
    /\ clock = 0
    /\ nextLeadId = 1
    /\ nextWorkerId = 2
    /\ ret = [op |-> "none"]
    /\ supabase \in {[configured |-> c, leads |-> {}] : c \in BOOLEAN}
    /\ flights = NoFlights

NextOverlap ==
    \E p \in Runs :
        \/ \E feed \in OverlapFeeds : BeginImportSheet(p, feed)
        \/ SaveImported(p)
        \/ ReadForAssign(p)
        \/ SaveAssigned(p)
        \/ AnswerImportSheet(p)
        \/ BeginAssignLeads(p)
        \/ AnswerAssignLeads(p)
        \/ BeginCreateLead(p)
        \/ SaveCreated(p)
        \/ AnswerCreateLead(p)

SpecOverlap == InitOverlap /\ [][NextOverlap]_vars

\* -------------------------------------------------------------- sync claims
FailedFeeds == {f \in Feeds : f.kind # "ok"}

\* C19: when fetching the feed fails or returns a status that is not a
\* success, importSheet and runOnce leave leads, salespersons and config as
\* they were, and importSheet answers with an error and no counts.
C19_FeedUnavailable ==
    [][\A f \in FailedFeeds :
        /\ (\E u \in BodyUrls : ImportSheet(u, f, 0, 0)) =>
            /\ UNCHANGED <<leads, salespersons, config, supabase>>
            /\ ret'.status = 500
            /\ DOMAIN ret' \cap {"imported", "updated", "assigned", "skipped"} = {}
        /\ RunOnce(f) => UNCHANGED <<leads, salespersons, config, supabase>>]_vars

\* C19 witness: after a run that stored leads and the time of the sync, a
\* request has met the failing feed and been answered with the error.
C19_Witness ==
    /\ ret.op = "importSheet" /\ ret.status = 500
    /\ Len(leads) >= 1 /\ config.lastSyncAt # <<>>

\* C20 (as claimed): when Supabase rejects the post of a lead during the
\* import that importSheet runs, in the save of importFromCsvRows or in the
\* save of assignUnassignedLeads, the request is answered with an error and
\* with none of the counts.
C20_WriteFailureSurfaced ==
    [][\A f \in Feeds, k1, k2 \in Rejections :
        (k1 + k2 > 0 /\ ImportSheet("", f, k1, k2)) =>
            /\ ret'.status = 500
            /\ DOMAIN ret' \cap {"imported", "updated", "assigned", "skipped"} = {}]_vars

\* The feeds that fetch reads with success.
ReadFeeds == {f \in Feeds : f.kind = "ok"}

\* C21 (as claimed): every run that fetches and parses the feed, on demand or
\* by the timer, leaves config.lastSyncAt at the time of the run and
\* config.headers at the headers of the feed, whatever the counts of the run.
C21_ConfigFollowsRun ==
    [][\A f \in ReadFeeds :
        ((\E u \in BodyUrls : ImportSheet(u, f, 0, 0)) \/ RunOnce(f)) =>
            /\ config'.lastSyncAt = <<clock>>
            /\ config'.headers = ParsedText(f.text).headers]_vars

\* C22 (as claimed): once a run of runOnce that fetched the feed with success
\* has finished, every row of the feed that carries an email has a lead with
\* that email in the store.
C22_TimerIngests ==
    [][\A f \in ReadFeeds :
        RunOnce(f) =>
            \A i \in 1..Len(FeedRows(f)) :
                RowEmail(FeedRows(f)[i]) # <<>> =>
                    \E j \in 1..Len(leads') :
                        EmailKey(leads'[j]) = toLowerCase(RowEmail(FeedRows(f)[i]))]_vars

\* ----------------------------------------------------------- overlap claims
\* The ingestion runs between their read of the store and their answer.
RunsInFlight == {p \in Runs : flights[p].op = "importSheet"}

\* C23 (as claimed): at any time at most one ingestion run is between its
\* read of the store and its final write.
C23_SingleFlight == Cardinality(RunsInFlight) <= 1

\* The leads of the store that getState reads: the table of Supabase when it
\* is configured, leads.json otherwise.
StoreLeads ==
    IF supabase.configured THEN supabase.leads
    ELSE {leads[i] : i \in 1..Len(leads)}

\* C24 (as claimed): whatever runs overlap, the store never holds two leads
\* with the same normalized email.
C24_OverlapTolerated ==
    \A a, b \in StoreLeads :
        (a.id # b.id /\ EmailKey(a) # <<>>) => EmailKey(a) # EmailKey(b)

\* In SpecOverlap the row of the feed carries an email and createLead is
\* called without one.
FromFeed(l) == l.email # <<>>
FromCreateLead(l) == l.email = <<>>

Kept(l) == \E j \in 1..Len(leads') : leads'[j].id = l.id

\* C29 (as claimed): in the file-backed store, the write of an import run or
\* of the balancer keeps every lead that createLead has added, and the write
\* of createLead keeps every lead that a run has imported.
C29_NoLostUpdate ==
    [][~supabase.configured =>
        \A p \in Runs :
            /\ (SaveImported(p) \/ SaveAssigned(p)) =>
                \A i \in 1..Len(leads) : FromCreateLead(leads[i]) => Kept(leads[i])
            /\ SaveCreated(p) =>
                \A i \in 1..Len(leads) : FromFeed(leads[i]) => Kept(leads[i])]_vars

\* ------------------------------------------------------------ status claims
\* The values of the type LeadStatus.
LeadStatus ==
    { <<"n", "e", "w">>,
      <<"c", "a", "l", "l">>,
      <<"n", "o", "t", " ", "l", "i", "f", "t", "e", "d">>,
      <<"q", "u", "o", "t", "a", "t", "i", "o", "n", " ", "s", "e", "n", "t">>,
      <<"s", "i", "t", "e", " ", "v", "i", "s", "i", "t">>,
      <<"a", "d", "v", "a", "n", "c", "e", " ", "p", "a", "y", "m", "e", "n", "t">>,
      <<"l", "e", "a", "d", " ", "f", "i", "n", "i", "s", "h", "e", "d">>,
      <<"c", "o", "n", "t", "a", "c", "t", "e", "d">>,
      <<"q", "u", "a", "l", "i", "f", "i", "e", "d">>,
      <<"w", "o", "n">>,
      <<"l", "o", "s", "t">> }

\* Rows of a sheet with the columns Email and Status: no status, a status of
\* the enumeration, and a label of the sheet's own.
Hot == <<"H", "o", "t">>
StatusRow(e, s) == ("Email" :> e) @@ ("Status" :> s)
StatusInputs == {StatusRow(e, s) : e \in {JaneLower, Bob}, s \in {<<>>, Won, Hot}}
StatusBatches == SeqsUpTo(StatusInputs, MaxRows)

\* The import pipeline on the clock, fed from the sheet with the columns
\* Email and Status.
NextStatus ==
    \/ \E rows \in StatusBatches : ImportFromCsvRows(rows)
    \/ Tick

SpecStatus == InitImport /\ [][NextStatus]_vars

\* C25 (as claimed): the status of every stored lead is a value of
\* LeadStatus.
C25_StatusInEnumeration ==
    \A i \in 1..Len(leads) : leads[i].status \in LeadStatus

\* --------------------------------------------------------- updatedAt claims
\* patch.k || fields[K] || current.k
PatchedValue(patch, fields, current, k, K) ==
    Or(Or(Get(patch, k), Get(fields, K)), current[k])

\* crm.ts 483-497: the lead updateLead stores for current and patch
PatchLead(current, patch, now) ==
    With(Spread(current.fields, Get(patch, "fields")), LAMBDA mergedFields :
        [Spread(current, patch) EXCEPT
            !.fields    = mergedFields,
            !.name      = PatchedValue(patch, mergedFields, current, "name", "Name"),
            !.email     = PatchedValue(patch, mergedFields, current, "email", "Email"),
            !.phone     = PatchedValue(patch, mergedFields, current, "phone", "Phone"),
            !.company   = PatchedValue(patch, mergedFields, current, "company", "Company"),
            !.notes     = PatchedValue(patch, mergedFields, current, "notes", "Notes"),
            !.updatedAt = now])

\* The bodies of the requests to updateLead: a status, a release of the
\* owner.
PatchInputs == {[status |-> Won], [ownerId |-> NULL]}

\* crm.ts 454-500, without Supabase
UpdateLead(id, patch) ==
    /\ IF \E i \in 1..Len(leads) : leads[i].id = id
       THEN /\ leads' = [i \in 1..Len(leads) |->
                            IF leads[i].id = id THEN PatchLead(leads[i], patch, clock)
                            ELSE leads[i]]
            /\ ret' = [op |-> "updateLead", found |-> TRUE]
       ELSE /\ leads' = leads
            /\ ret' = [op |-> "updateLead", found |-> FALSE]
    /\ UNCHANGED <<salespersons, config, clock, nextLeadId, nextWorkerId, supabase, flights>>

\* The sales team on the clock: salespersons come and go, leads are entered
\* and edited by hand, the balancer runs, and time passes between the
\* handlers.
NextTeam ==
    \/ CreateSalesperson
    \/ \E id \in 1..MaxWorkers : DeleteSalesperson(id)
    \/ \E ownerId \in OwnerInputs : CreateLead(ownerId)
    \/ \E id \in 1..MaxLeads, patch \in PatchInputs : UpdateLead(id, patch)
    \/ AssignUnassignedLeads
    \/ Tick

SpecTeam == Init /\ [][NextTeam]_vars

\* C26 (as claimed): a handler that changes a stored lead leaves that lead's
\* updatedAt at the time of the handler.
C26_UpdatedAtTracksMutation ==
    [][\A i \in 1..Len(leads), j \in 1..Len(leads') :
        (leads'[j].id = leads[i].id /\ leads'[j] # leads[i]) =>
            leads'[j].updatedAt = clock]_vars

\* ------------------------------------------------- the sync-sheet function
\* sync-sheet/index.ts 47-91 is parseCSV of crm.ts 706-762, statement for
\* statement; its rows are keyed by the headers of the feed.

\* sync-sheet/index.ts 99-106: ensureId returns a fresh identifier whatever
\* the row holds.
ensureId(r, fresh) == fresh

\* sync-sheet/index.ts 125-141: the row of the table built from a row of the
\* feed
PayloadRow(r, id, now) ==
    [id |-> id, fields |-> [k \in DOMAIN r \ {"id"} |-> r[k]],
     name |-> Or(Get(r, "Full Name"), Get(r, "Name")),
     email |-> Get(r, "Email"),
     phone |-> Or(Get(r, "Phone"), Get(r, "phone")),
     company |-> Get(r, "Company"), source |-> Get(r, "Source"),
     status |-> Or(Or(Get(r, "Lead Status"), Get(r, "Status")), StatusNew),
     ownerId |-> NULL, notes |-> Get(r, "Notes"),
     createdAt |-> now, updatedAt |-> now]

\* sync-sheet/index.ts 124-142
Payload(rows, firstId, now) ==
    [i \in 1..Len(rows) |-> PayloadRow(rows[i], ensureId(rows[i], firstId + i - 1), now)]

\* sync-sheet/index.ts 144-153: POST leads?on_conflict=id with
\* resolution=merge-duplicates; a row of the payload takes the place of the
\* row of the table with its id.
Upsert(table, payload) ==
    {l \in table : \A i \in 1..Len(payload) : payload[i].id # l.id}
        \cup {payload[i] : i \in 1..Len(payload)}

\* sync-sheet/index.ts 1-169: one call of the function, the sheet address
\* coming from the config row
SyncSheet(feed) ==
    IF feed.kind # "ok"
    THEN /\ ret' = [op |-> "syncSheet", status |-> 502, text |-> feed.text]
         /\ UNCHANGED <<leads, salespersons, config, clock, nextLeadId,
                        nextWorkerId, supabase, flights>>
    ELSE \E parsed \in {ParsedText(feed.text)} :
         \E rows \in {KeyedRows(parsed.rows)} :
            /\ supabase' = [supabase EXCEPT
                    !.leads = Upsert(@, Payload(rows, nextLeadId, clock))]
            /\ Cardinality(supabase'.leads) <= MaxStored
            /\ nextLeadId' = nextLeadId + Len(rows)
            /\ config' = [config EXCEPT !.lastSyncAt = <<clock>>,
                                        !.headers = parsed.headers]
            /\ ret' = [op |-> "syncSheet", status |-> 200, text |-> feed.text]
            /\ UNCHANGED <<leads, salespersons, clock, nextWorkerId, flights>>

\* The function is called again and again while time passes.
NextEdge ==
    \/ \E feed \in Feeds : SyncSheet(feed)
    \/ Tick

SpecEdge == InitStore /\ [][NextEdge]_vars

\* C27 (as claimed): a call of the function on the feed that the call before
\* it has ingested adds no lead, and leaves no two leads with one email or
\* one phone.
C27_OneLeadPerKeyAcrossSyncs ==
    [][\A f \in ReadFeeds :
        (ret.op = "syncSheet" /\ ret.status = 200 /\ ret.text = f.text
            /\ SyncSheet(f)) =>
            /\ Cardinality(supabase'.leads) = Cardinality(supabase.leads)
            /\ \A a, b \in supabase'.leads :
                a.id # b.id =>
                    /\ EmailKey(a) # <<>> => EmailKey(a) # EmailKey(b)
                    /\ PhoneKey(a) # <<>> => PhoneKey(a) # PhoneKey(b)]_vars

\* --------------------------------------------------------- counting claims
\* The row loop of importFromCsvRows on rows in the current state.
LoopNow(rows) == ImportRows(leads, rows, nextLeadId, clock)

\* C28: for every batch the three counters add up to the number of rows,
\* the working collection after the row loop has as many leads as before
\* plus imported, and every lead it had before is still in it.
C28_CountAccounting ==
    \A rows \in Batches : \A st \in {LoopNow(rows)} :
        /\ st.imported + st.updated + st.skipped = Len(rows)
        /\ Len(st.leads) = Len(leads) + st.imported
        /\ \A i \in 1..Len(leads) :
            \E j \in 1..Len(st.leads) : st.leads[j].id = leads[i].id

\* A store with a lead meets a batch with a row that updates it, and one
\* with a row that is imported and a row that is skipped.
C28_Witness ==
    /\ Len(leads) > 0
    /\ \E rows \in Batches : \E st \in {LoopNow(rows)} :
        Len(rows) = 2 /\ st.updated = 1 /\ st.imported = 1
    /\ \E rows \in Batches : \E st \in {LoopNow(rows)} :
        Len(rows) = 2 /\ st.imported = 1 /\ st.skipped = 1

\* ----------------------------------------------------------------- listing
\* crm.ts 294-297
ListedDateLike(v) ==
    \/ Matches(DatePattern, v)
    \/ \E w \in {toLowerCase(v)} : \E m \in Months : StartsWith(w, m)
    \/ Matches(GraveDatePattern, v)

\* crm.ts 310-316
KeyFields ==
    {"full name", "phone", "email",
     "what_is_your_average_monthly_electricity_bill?",
     "what_type_of_property_do_you_want_to_install_solar_on?"}

\* crm.ts 284-322: the predicate of the filter
IsListed(l) ==
    \E nonEmpty \in {{k \in DOMAIN l.fields : trim(l.fields[k]) # <<>>}} :
        /\ nonEmpty # {}
        /\ ~ /\ Cardinality(nonEmpty) = 1
             /\ \E v \in {trim(l.fields[CHOOSE k \in nonEmpty : TRUE])} :
                    ListedDateLike(v) \/ TotalLike(v) \/ NumericOnly(v)
        /\ \/ l.name # <<>> \/ l.email # <<>> \/ l.phone # <<>>
           \/ Cardinality({k \in KeyFields : trim(Get(l.fields, k)) # <<>>}) >= 2

\* crm.ts 323: a stable sort, the latest createdAt first
RECURSIVE LatestFirstFrom(_, _)
LatestFirstFrom(ls, t) ==
    IF t < 0 THEN <<>>
    ELSE SelectSeq(ls, LAMBDA l : l.createdAt = t) \o LatestFirstFrom(ls, t - 1)

\* crm.ts 281-325
listLeads(ls) ==
    With(SelectSeq(ls, IsListed), LAMBDA filtered :
        LatestFirstFrom(filtered,
                        SetMax({filtered[i].createdAt : i \in 1..Len(filtered)} \cup {0})))

\* GET /api/leads
ListLeads ==
    /\ ret' = [op |-> "listLeads", items |-> listLeads(leads)]
    /\ UNCHANGED <<leads, salespersons, config, clock, nextLeadId, nextWorkerId,
                   supabase, flights>>

\* The sheet is imported and the leads are listed while time passes.
NextListing ==
    \/ \E rows \in SheetBatches : ImportSheetRows(rows)
    \/ ListLeads
    \/ Tick

SpecListing == InitImport /\ [][NextListing]_vars

\* C30 (as claimed): every lead that the importer has stored is among the
\* leads that the next call of listLeads returns.
C30_ImportedLeadsListed ==
    [][ListLeads =>
        \A i \in 1..Len(leads) :
            \E j \in 1..Len(ret'.items) : ret'.items[j].id = leads[i].id]_vars

====
